---- MODULE Spec2Model ----
(***************************************************************************)
(* Model of the Shopify MCP server: the start-up sequence of index.ts, the *)
(* client-credentials token provider (lib/shopifyAuth.ts) with its         *)
(* self-rescheduling refresh timer, and the retrying GraphQL client        *)
(* (utils/shopifyClient.ts: query / mutate / healthCheck), the tool-package *)
(* registry (utils/toolPackageManager.ts), the resolution of the settings  *)
(* (config/config.ts, index.ts) and a tool call from its arguments to its  *)
(* result (tools/baseTool.ts, utils/logger.ts, tools/updateProduct.ts).    *)
(*                                                                         *)
(* Time is the value of Date.now() in milliseconds.  Timers fire at their  *)
(* due time (time never advances past a pending timer).  The sleep of a    *)
(* retrying query records its delay and may end at any later step.         *)
(***************************************************************************)
EXTENDS Integers, Sequences, FiniteSets, TLC

\* ------------------------------------------------------------------ bounds
MaxRetry     == 2      \* configured RETRY_ATTEMPTS ranges over 0..MaxRetry
MaxCalls     == 2      \* client calls that may run concurrently
MaxExchanges == 3      \* token exchanges started in one run
MaxValueLen  == 10     \* longest sensitive value that is masked
MaxBackoff   == 6      \* RETRY_ATTEMPTS of the backoff run (the cap needs 5)
MaxEdges     == 2      \* most edges in a products connection

\* ------------------------------------------------------- input value sets
ExpiresInSet    == {60, 3600}        \* expires_in (seconds) the server may grant
FetchLatencySet == {0, 200}          \* ms a token exchange may take
StatusSet       == {200, 400, 499, 500}  \* status of a ClientError
JitterSet       == {0, 999}          \* floor of Math.random() * 1000
HttpFailSet     == {401, 500}        \* non-2xx answers of the token endpoint

\* ------------------------------------------------------ program constants
REFRESH_MARGIN_MS == 300000
RETRY_REFRESH_MS  == 60000
baseDelay         == 1000
maxDelay          == 30000

NoToken     == 0       \* accessToken: string | null  = null
StaticToken == -1      \* the pre-issued SHOPIFY_ACCESS_TOKEN

Max(a, b) == IF a >= b THEN a ELSE b
Min(a, b) == IF a <= b THEN a ELSE b

RECURSIVE Pow2(_)
Pow2(k) == IF k = 0 THEN 1 ELSE 2 * Pow2(k - 1)

VARIABLES
  cfg,           \* resolved settings: which credentials are present, retry count
  pc,            \* position of the index.ts module body
  exitCode,      \* process exit code, -1 while the process lives
  startupError,  \* the error that ended start-up, if any
  accessToken,   \* ShopifyAuth.accessToken
  expiresAt,     \* ShopifyAuth.expiresAt
  refreshTimer,  \* ShopifyAuth.refreshTimer (a timer handle or NoTimer)
  graphqlClient, \* ShopifyAuth.graphqlClient is set (TRUE) or null (FALSE)
  authPc,        \* "none" (no ShopifyAuth), "idle", "fetching" (exchange in flight)
  timers,        \* timers pending in the event loop
  now,           \* Date.now()
  header,        \* X-Shopify-Access-Token of the GraphQLClient of index.ts
  clientHeader,  \* X-Shopify-Access-Token of ShopifyClient.client
  toolsExposed,  \* server.tool(...) registrations were made
  calls,         \* the client calls: query / mutate / raw request
  hist,          \* history: what happened so far (not program state)
  registry,      \* the ToolPackageManager singleton and what it was built from
  setting,       \* one setting being resolved by the configuration manager
  toolRun,       \* one tool call: BaseTool.execute or a tool object of index.ts
  transport,     \* outcome of server.connect(transport)
  util           \* one application of a helper: id normalisation, masking

vars == <<cfg, pc, exitCode, startupError, accessToken, expiresAt, refreshTimer,
          graphqlClient, authPc, timers, now, header, clientHeader,
          toolsExposed, calls, hist, registry, setting, toolRun, transport,
          util>>

authVars   == <<accessToken, expiresAt, refreshTimer, graphqlClient, authPc, timers>>
mainVars   == <<pc, exitCode, startupError, toolsExposed>>
extVars    == <<registry, setting, toolRun, transport, util>>

NoTimer == [kind |-> "none", due |-> 0, unref |-> FALSE, setBy |-> "none"]
NoError == [kind |-> "none", status |-> 0, body |-> ""]

NoCall == [kind |-> "none", pc |-> "idle", attempt |-> 0, sent |-> 0,
           sleeps |-> 0, delay |-> 0, tok |-> NoToken, want |-> NoToken,
           error |-> "none", status |-> 0, attempts |-> 0,
           transient |-> 0, first4xx |-> 0, logFails |-> 0, hc |-> "none"]

\* variant: one of the two client credentials is enough
useClientCredentials_Either == cfg.clientId \/ cfg.clientSecret

\* index.ts: const useClientCredentials = !!(SHOPIFY_CLIENT_ID && SHOPIFY_CLIENT_SECRET)
useClientCredentials == cfg.clientId /\ cfg.clientSecret

\* ------------------------------------------------------- token provider

\* Response.ok of the token endpoint's answer
ResOk(status) == status >= 200 /\ status <= 299

\* what the token endpoint may answer when asked for a token; tok is the
\* token it would issue
Responses(tok) ==
  {[neterr |-> TRUE, status |-> 0, body |-> "", json |-> FALSE,
    access_token |-> NoToken, expires_in |-> 0]}
  \cup {[neterr |-> FALSE, status |-> s, body |-> "denied", json |-> FALSE,
         access_token |-> NoToken, expires_in |-> 0] : s \in HttpFailSet}
  \cup {[neterr |-> FALSE, status |-> 200, body |-> "<html>", json |-> FALSE,
         access_token |-> NoToken, expires_in |-> 0]}
  \cup {[neterr |-> FALSE, status |-> 200, body |-> "json", json |-> TRUE,
         access_token |-> tok, expires_in |-> e] : e \in ExpiresInSet}

\* variant: a failed exchange forgets the token it had
fetchToken_ClearsOnFailure(res, tok, exp, t) ==
  IF res.neterr \/ ~ResOk(res.status) \/ ~res.json
  THEN [threw |-> TRUE,
        error |-> [kind |-> IF res.neterr THEN "network"
                            ELSE IF ~ResOk(res.status) THEN "exchange" ELSE "parse",
                   status |-> IF ~res.neterr /\ ~ResOk(res.status) THEN res.status ELSE 0,
                   body |-> IF ~res.neterr /\ ~ResOk(res.status) THEN res.body ELSE ""],
        accessToken |-> NoToken, expiresAt |-> 0]
  ELSE [threw |-> FALSE, error |-> NoError,
        accessToken |-> res.access_token,
        expiresAt |-> t + res.expires_in * 1000]

\* variant: the answer's status is not looked at before the body is parsed
fetchToken_NoStatusCheck(res, tok, exp, t) ==
  IF res.neterr
  THEN [threw |-> TRUE, error |-> [kind |-> "network", status |-> 0, body |-> ""],
        accessToken |-> tok, expiresAt |-> exp]
  ELSE IF ~res.json
  THEN [threw |-> TRUE, error |-> [kind |-> "parse", status |-> 0, body |-> ""],
        accessToken |-> tok, expiresAt |-> exp]
  ELSE [threw |-> FALSE, error |-> NoError,
        accessToken |-> res.access_token,
        expiresAt |-> t + res.expires_in * 1000]

\* ShopifyAuth.fetchToken, from the answer to the fields it leaves behind:
\* tok, exp are accessToken and expiresAt before the call, t is Date.now()
fetchToken(res, tok, exp, t) ==
  IF res.neterr
  THEN [threw |-> TRUE, error |-> [kind |-> "network", status |-> 0, body |-> ""],
        accessToken |-> tok, expiresAt |-> exp]
  ELSE IF ~ResOk(res.status)
  THEN [threw |-> TRUE,
        error |-> [kind |-> "exchange", status |-> res.status, body |-> res.body],
        accessToken |-> tok, expiresAt |-> exp]
  ELSE IF ~res.json
  THEN [threw |-> TRUE, error |-> [kind |-> "parse", status |-> 0, body |-> ""],
        accessToken |-> tok, expiresAt |-> exp]
  ELSE [threw |-> FALSE, error |-> NoError,
        accessToken |-> res.access_token,
        expiresAt |-> t + res.expires_in * 1000]

\* ShopifyAuth.getAccessToken
getAccessToken ==
  IF accessToken = NoToken
  THEN [threw |-> TRUE, value |-> NoToken]
  ELSE [threw |-> FALSE, value |-> accessToken]

\* variant: the margin is left out
refreshDelay_NoMargin(exp, t) == Max(exp - t, 0)

\* variant: the margin is added instead of subtracted
refreshDelay_AfterExpiry(exp, t) == Max(exp - t + REFRESH_MARGIN_MS, 0)

\* scheduleRefresh: const delay = Math.max(expiresAt - Date.now() - MARGIN, 0)
refreshDelay(exp, t) == Max(exp - t - REFRESH_MARGIN_MS, 0)

\* the timer scheduleRefresh sets (it is unref()ed); setBy is history: the
\* outcome of the exchange that led to this call of scheduleRefresh
scheduleRefresh(exp, t, by) ==
  [kind |-> "refresh", due |-> t + refreshDelay(exp, t), unref |-> TRUE, setBy |-> by]

\* variant: the retry backoff is 6 s
retryTimer_Short(t) ==
  [kind |-> "retry", due |-> t + 6000, unref |-> FALSE, setBy |-> "fail"]

\* the timer of the catch branch: setTimeout(() => this.scheduleRefresh(), 60_000)
retryTimer(t) ==
  [kind |-> "retry", due |-> t + RETRY_REFRESH_MS, unref |-> FALSE, setBy |-> "fail"]

\* ------------------------------------- tool packages (toolPackageManager.ts)

\* the tools index.ts registers with server.tool(...)
ServerTools ==
  {"get-products", "get-product-by-id", "get-customers", "get-orders",
   "get-order-by-id", "update-order", "get-customer-orders", "update-customer",
   "create-product", "update-product", "manage-product-variants",
   "manage-product-options", "delete-product", "delete-product-variants"}

\* the registered tools whose GraphQL document is a mutation
MutatingTools ==
  {"update-order", "update-customer", "create-product", "update-product",
   "manage-product-variants", "manage-product-options", "delete-product",
   "delete-product-variants"}

\* ConfigSchema: MCP_TOOL_PACKAGE: z.enum([...])
PackageEnum ==
  {"none", "basic", "full", "product_management", "customer_service",
   "order_management"}

\* values MCP_TOOL_PACKAGE may be configured with
PackageNameSet == PackageEnum \cup {"bogus", "custom"}

\* ToolPackageManager.getDefaultToolPackages: the tools of each package, in order
getDefaultToolPackages ==
  [n \in PackageEnum |->
     CASE n = "none"  -> <<>>
       [] n = "basic" -> <<"get-products", "get-product-by-id", "get-customers",
                           "get-orders", "get-order-by-id">>
       [] n = "full"  -> <<"get-products", "get-product-by-id", "get-customers",
                           "get-customer-orders", "get-orders", "get-order-by-id",
                           "create-product", "update-customer">>
       [] n = "product_management" ->
                         <<"get-products", "get-product-by-id", "create-product">>
       [] n = "customer_service" ->
                         <<"get-customers", "get-customer-orders", "get-orders",
                           "get-order-by-id", "update-customer">>
       [] n = "order_management" -> <<"get-orders", "get-order-by-id">>]

NoPackages == [n \in {} |-> <<>>]

\* package definitions a config/tool_packages.json may hold (values of the
\* declared type ToolPackageDefinition): one that gives "none" a tool and
\* lacks four names, one with a name of its own only, and the empty object
CustomDefs ==
  {[n \in {"none", "basic"} |->
      IF n = "none" THEN <<"delete-product">> ELSE <<"get-orders", "get-products">>],
   [n \in {"custom"} |-> <<"get-orders">>],
   NoPackages}

\* what readFileSync + JSON.parse of config/tool_packages.json may meet
FileSet ==
  {[kind |-> k, packages |-> NoPackages] : k \in {"absent", "unreadable", "notjson"}}
  \cup {[kind |-> "parsed", packages |-> P] : P \in CustomDefs}

\* variant: only a missing file falls back to the built-in packages
loadToolPackages_OnlyWhenAbsent(file) ==
  IF file.kind = "absent" THEN getDefaultToolPackages ELSE file.packages

\* ToolPackageManager.loadToolPackages: the parsed file as it is, the
\* built-in packages when reading or JSON.parse throws
loadToolPackages(file) ==
  IF file.kind = "parsed" THEN file.packages ELSE getDefaultToolPackages

NoConfigError == [kind |-> "none", names |-> {}]

\* the settings ConfigSchema.parse rejects: SHOPIFY_ACCESS_TOKEN and
\* MYSHOPIFY_DOMAIN are z.string().min(1), MCP_TOOL_PACKAGE is a z.enum
configIssues(c, name) ==
  {"SHOPIFY_ACCESS_TOKEN" : x \in {1} \cap (IF c.accessToken THEN {} ELSE {1})}
  \cup {"MYSHOPIFY_DOMAIN" : x \in {1} \cap (IF c.domain THEN {} ELSE {1})}
  \cup {"MCP_TOOL_PACKAGE" : x \in {1} \cap (IF name \in PackageEnum THEN {} ELSE {1})}

\* ConfigManager's constructor: ConfigSchema.parse(rawConfig); a ZodError
\* becomes a ConfigurationError whose message joins the issues, and the
\* issue of an enum names the accepted values
parseConfig(c, name) ==
  IF configIssues(c, name) = {}
  THEN [threw |-> FALSE, error |-> NoConfigError]
  ELSE [threw |-> TRUE,
        error |-> [kind |-> "CONFIGURATION_ERROR",
                   names |-> IF "MCP_TOOL_PACKAGE" \in configIssues(c, name)
                             THEN PackageEnum ELSE {}]]

\* variant: "none" is accepted without being looked up
validatePackage_NoneAlwaysValid(active, pkgs) ==
  IF active # "none" /\ active \notin DOMAIN pkgs
  THEN [threw |-> TRUE,
        error |-> [kind |-> "CONFIGURATION_ERROR", names |-> DOMAIN pkgs]]
  ELSE [threw |-> FALSE, error |-> NoConfigError]

\* ToolPackageManager.validatePackage: "Invalid tool package '<active>'.
\* Available packages: <Object.keys(toolPackages)>"
validatePackage(active, pkgs) ==
  IF active \notin DOMAIN pkgs
  THEN [threw |-> TRUE,
        error |-> [kind |-> "CONFIGURATION_ERROR", names |-> DOMAIN pkgs]]
  ELSE [threw |-> FALSE, error |-> NoConfigError]

\* variant: the tools of "none" are looked up like those of any package
getActiveTools_NoShortcut(active, pkgs) ==
  IF active \notin DOMAIN pkgs
  THEN [threw |-> TRUE, tools |-> <<>>]
  ELSE [threw |-> FALSE, tools |-> pkgs[active]]

\* ToolPackageManager.getActiveTools
getActiveTools(active, pkgs) ==
  IF active = "none"
  THEN [threw |-> FALSE, tools |-> <<>>]
  ELSE IF active \notin DOMAIN pkgs
  THEN [threw |-> TRUE, tools |-> <<>>]
  ELSE [threw |-> FALSE, tools |-> pkgs[active]]

\* ToolPackageManager.isToolEnabled: getActiveTools().includes(toolName)
isToolEnabled(toolName, active, pkgs) ==
  LET r == getActiveTools(active, pkgs)
  IN ~r.threw /\ \E k \in DOMAIN r.tools : r.tools[k] = toolName

NoRegistry ==
  [state |-> "unbuilt", name |-> "full",
   file |-> [kind |-> "absent", packages |-> NoPackages],
   activePackage |-> "", toolPackages |-> NoPackages, error |-> NoConfigError]

\* ------------------------------------------- settings (config/config.ts)

\* JavaScript values a flag or an environment variable may hold: undefined,
\* a number (minimist turns --retryAttempts=0 into the number 0), a string;
\* n is what parseInt(value, 10) makes of it, NaN written -1
Undef     == [t |-> "undefined", s |-> "", n |-> -1]
Num(k)    == [t |-> "number", s |-> "", n |-> k]
Str(s, k) == [t |-> "string", s |-> s, n |-> k]

NoSetting == [key |-> "none", flag |-> Undef, env |-> Undef, value |-> Undef,
              state |-> "unresolved"]

NaN == -1

\* the settings of index.ts and of the ConfigManager
SettingKeys ==
  {"accessToken", "clientId", "clientSecret", "domain", "apiVersion",
   "timeout", "retryAttempts", "toolPackage", "logLevel"}

NumericKeys == {"timeout", "retryAttempts"}

\* the built-in default of a setting, undefined where there is none
Default(key) ==
  CASE key = "apiVersion"    -> Str("2026-01", 2026)
    [] key = "timeout"       -> Num(30000)
    [] key = "retryAttempts" -> Num(3)
    [] key = "toolPackage"   -> Str("full", NaN)
    [] key = "logLevel"      -> Str("INFO", NaN)
    [] OTHER                 -> Undef

\* values of a flag (as minimist delivers them) and of an environment variable
FlagValues(key) ==
  IF key \in NumericKeys THEN {Undef, Num(0), Num(5)}
  ELSE IF key = "logLevel" THEN {Undef, Str("debug", NaN)}
  ELSE {Undef, Str("flag-value", NaN)}

EnvValues(key) ==
  IF key \in NumericKeys THEN {Undef, Str("0", 0), Str("2", 2)}
  ELSE IF key = "logLevel" THEN {Undef, Str("ERROR", NaN)}
  ELSE {Undef, Str("env-value", NaN)}

\* JavaScript truthiness: undefined, 0 and "" are falsy
Truthy(v) ==
  \/ v.t = "number" /\ v.n # 0
  \/ v.t = "string" /\ v.s # ""

\* a || b
Or(a, b) == IF Truthy(a) THEN a ELSE b

\* String.prototype.toUpperCase on the strings used here
toUpperCase(v) == IF v.s = "debug" THEN [v EXCEPT !.s = "DEBUG"] ELSE v

\* ConfigManager.parseNumber: parseInt(value, 10), the default when NaN
parseNumber(v, defaultValue) ==
  IF v.t = "undefined" \/ v.n = NaN THEN defaultValue ELSE Num(v.n)

\* the value a setting resolves to: config.ts lines 24-33 for timeout,
\* retryAttempts, toolPackage and logLevel, index.ts lines 33-40 and 84 for
\* the credentials, the domain and the API version
resolve(key, flag, env) ==
  CASE key \in NumericKeys -> parseNumber(Or(flag, env), Default(key))
    [] key = "logLevel"    -> toUpperCase(Or(Or(flag, env), Default(key)))
    [] key \in {"toolPackage", "apiVersion"} -> Or(Or(flag, env), Default(key))
    [] OTHER               -> Or(flag, env)

\* ------------------------------------------------ tool calls (baseTool.ts)

\* the tools modelled: four BaseTool subclasses (two mutations, two list
\* queries) and one tool object of index.ts, which sends through
\* shopifyClient.request
BaseTools     == {"update-customer", "create-product", "get-products", "get-orders"}
ListTools     == {"get-products", "get-orders"}
LegacyTools   == {"update-product"}
MutationTools == {"update-customer", "create-product", "update-product"}
ToolSet       == BaseTools \cup LegacyTools

\* the client method a tool sends its document with
CallKind(tool) ==
  IF tool \in LegacyTools THEN "request"
  ELSE IF tool \in MutationTools THEN "mutate" ELSE "query"

\* userErrors of a mutation payload: absent, empty, or <<field, message>> pairs
UserError1 == <<"id", "Customer does not exist">>
UserError2 == <<"email", "Email is invalid">>
NoUserErrors == [present |-> FALSE, list |-> <<>>]
UserErrorsSet ==
  {NoUserErrors}
  \cup {[present |-> TRUE, list |-> l] :
          l \in {<<>>, <<UserError1>>, <<UserError1, UserError2>>,
                 <<UserError2, UserError1>>}}

\* JSON.stringify of a value handed to the logger: its length, and whether
\* its first TRUNCATE_AT characters followed by '"}' are JSON again (the cut
\* falls inside a string of the top-level object, not inside an escape)
TRUNCATE_AT == 1000
JsonSet == {[len |-> n, closable |-> b] : n \in {300, 1001}, b \in BOOLEAN}

\* MCPLogger.truncateResult: str.length > 1000 ?
\*   JSON.parse(str.substring(0, 1000) + '"}') : result
truncateResult(json) ==
  [threw |-> json.len > TRUNCATE_AT /\ ~json.closable]

\* MCPLogger.logToolExecution: the result is truncated in debug mode only
logToolExecution(debugMode, json) ==
  [threw |-> debugMode /\ truncateResult(json).threw]

\* the log levels modelled; shouldLog('DEBUG') holds at level DEBUG only
LogLevels == {"DEBUG", "INFO"}

\* MCPLogger.logGraphQLResponse(true, data, ...): returns at once below level
\* DEBUG; otherwise the data is truncated in debug mode
logGraphQLResponse(logLevel, debugMode, json) ==
  [threw |-> logLevel = "DEBUG" /\ debugMode /\ truncateResult(json).threw]

\* what the catch block of query / mutate sees when logging the response of
\* a request that succeeded throws inside the try block: an error that is
\* not a ClientError
LogFailure == [type |-> "other", status |-> 0]

\* the try block of query / mutate after this.client.request(...) ended in
\* out: the response is logged before it is returned
tryBlock(out, logLevel, debugMode, json) ==
  IF out.type = "ok" /\ logGraphQLResponse(logLevel, debugMode, json).threw
  THEN LogFailure ELSE out

NoResult == [threw |-> FALSE, flag |-> "absent", prefixed |-> FALSE,
             text |-> "", pairs |-> <<>>, errorCode |-> "", errorType |-> ""]

\* what was thrown inside execute's try block
Thrown(kind, text, pairs) == [kind |-> kind, text |-> text, pairs |-> pairs]

\* the message a tool throws for a non-empty userErrors list
UserErrorText(tool) ==
  CASE tool = "update-customer" -> "Failed to update customer: "
    [] tool = "create-product"  -> "Product creation failed: "
    [] OTHER                    -> "Failed to update product: "

\* executeImpl after the client call ended: call is the ended client call,
\* ue the payload's userErrors, reshape whether reading the payload throws
executeImpl(tool, call, ue, reshape) ==
  IF call.pc = "thrown" THEN Thrown("GRAPHQL_ERROR", call.error, <<>>)
  ELSE IF tool \in MutationTools /\ ue.present /\ Len(ue.list) > 0
  THEN Thrown("Error", UserErrorText(tool), ue.list)
  ELSE IF reshape THEN Thrown("TypeError", "Cannot read properties", <<>>)
  ELSE Thrown("ok", "", <<>>)

\* BaseTool.execute, the catch block: log the failure, then build the
\* failure result (ShopifyMCPError: its message and code, otherwise the
\* message prefixed with "Tool execution failed: " and the error's type)
executeCatch(e, debugMode, errJson) ==
  IF logToolExecution(debugMode, errJson).threw
  THEN [NoResult EXCEPT !.threw = TRUE, !.text = "Unexpected token",
                        !.errorType = "SyntaxError"]
  ELSE IF e.kind \in {"GRAPHQL_ERROR", "TOOL_EXECUTION_ERROR"}
  THEN [NoResult EXCEPT !.flag = "false", !.text = e.text, !.pairs = e.pairs,
                        !.errorCode = e.kind]
  ELSE [NoResult EXCEPT !.flag = "false", !.prefixed = TRUE, !.text = e.text,
                        !.pairs = e.pairs, !.errorType = e.kind]

\* BaseTool.execute from the outcome e of executeImpl on: log the success
\* and return it, or go through the catch block
execute(e, debugMode, dataJson, errJson) ==
  IF e.kind # "ok" THEN executeCatch(e, debugMode, errJson)
  ELSE IF logToolExecution(debugMode, dataJson).threw
  THEN executeCatch(Thrown("SyntaxError", "Unexpected token", <<>>),
                    debugMode, errJson)
  ELSE [NoResult EXCEPT !.flag = "true"]

\* updateProduct.execute (tools/updateProduct.ts): every failure is caught
\* and thrown again; userErrors.length is read without a guard; the value
\* returned on success is { product } with no success flag
legacyExecute(call, ue, reshape) ==
  IF call.pc = "thrown"
  THEN [NoResult EXCEPT !.threw = TRUE, !.text = call.error]
  ELSE IF ~ue.present
  THEN [NoResult EXCEPT !.threw = TRUE, !.text = "Cannot read properties",
                        !.errorType = "TypeError"]
  ELSE IF Len(ue.list) > 0
  THEN [NoResult EXCEPT !.threw = TRUE, !.text = UserErrorText("update-product"),
                        !.pairs = ue.list]
  ELSE IF reshape
  THEN [NoResult EXCEPT !.threw = TRUE, !.text = "Cannot read properties",
                        !.errorType = "TypeError"]
  ELSE NoResult

\* the optional arguments of the list tools as the caller gives them: limit
\* omitted, below, inside or above 1..250; status omitted, 'any' or 'open'
NoGiven    == [limit |-> Undef, status |-> Undef]
LimitArgs  == {Undef, Num(0), Num(1), Num(MaxEdges), Num(251)}
StatusArgs == {Undef, Str("any", NaN), Str("open", NaN)}
GivenSet(tool) ==
  IF tool = "get-orders" THEN [limit : LimitArgs, status : StatusArgs]
  ELSE IF tool = "get-products" THEN [limit : LimitArgs, status : {Undef}]
  ELSE {NoGiven}

\* the schemas of the list tools accept:
\* limit: z.number().min(1).max(250).optional()
schemaAccepts(a) == a.limit = Undef \/ (a.limit.n >= 1 /\ a.limit.n <= 250)

\* BaseTool.validateArgs and execute: the value parse returns is dropped,
\* executeImpl(args) gets what the caller gave
validateArgs(a) == a

\* a value inside a template literal
toString(v) == IF v.t = "undefined" THEN "undefined" ELSE v.s

\* GetOrdersTool.executeImpl: if (status !== 'any') queryFilter = `status:${status}`
queryFilter(tool, a) ==
  IF tool = "get-orders" /\ a.status # Str("any", NaN)
  THEN <<"status:", toString(a.status)>> ELSE <<>>

\* the variables a list tool sends: first: limit, and the filter if not ''
NoVariables == [first |-> Undef, query |-> <<>>]
buildVariables(tool, a) ==
  IF tool \in ListTools
  THEN [first |-> a.limit, query |-> queryFilter(tool, a)]
  ELSE NoVariables

\* the products connection of a response: edges absent, or a list of edges
ProductNodes == {"p1", "p2"}
EdgeLists ==
  UNION {[1..n -> {[node |-> p] : p \in ProductNodes}] : n \in 0..MaxEdges}
NoResponse  == [hasEdges |-> FALSE, edges |-> <<>>]
ResponseSet == {NoResponse} \cup {[hasEdges |-> TRUE, edges |-> l] : l \in EdgeLists}

\* BaseTool.extractEdges(response, 'products') once response.products is
\* known to be there: [] without an edges array, else edges.map(e => e.node)
extractEdges(resp) ==
  IF ~resp.hasEdges THEN <<>>
  ELSE [i \in 1..Len(resp.edges) |-> resp.edges[i].node]

NoToolRun == [tool |-> "none", stage |-> "idle", args |-> "valid",
              given |-> NoGiven, variables |-> NoVariables,
              response |-> NoResponse, products |-> <<>>,
              debugMode |-> FALSE, logLevel |-> "INFO",
              userErrors |-> NoUserErrors,
              reshape |-> FALSE, dataJson |-> [len |-> 0, closable |-> TRUE],
              implThrew |-> FALSE, result |-> NoResult]

\* ---------------------------------------- helpers (baseTool.ts, logger.ts)

\* a string is the sequence of its parts: in an identifier the parts are
\* "/" and the maximal pieces without "/", in a sensitive value the parts
\* are its characters
GidPrefix == <<"gid:", "/", "/", "shopify", "/">>

\* String.prototype.startsWith
startsWith(str, prefix) ==
  Len(str) >= Len(prefix) /\ SubSeq(str, 1, Len(prefix)) = prefix

\* variant: the prefix is put in front of every id
toGraphQLId_AlwaysPrefix(id, type) == GidPrefix \o <<type, "/">> \o id

\* BaseTool.toGraphQLId
toGraphQLId(id, type) ==
  IF startsWith(id, GidPrefix) THEN id ELSE GidPrefix \o <<type, "/">> \o id

\* the last element of str.split('/'): the piece after the last "/"
lastPart(str) ==
  IF str = <<>> \/ str[Len(str)] = "/" THEN <<>> ELSE <<str[Len(str)]>>

\* BaseTool.extractNumericId
extractNumericId(graphqlId) ==
  IF startsWith(graphqlId, GidPrefix) THEN lastPart(graphqlId) ELSE graphqlId

\* '*'.repeat(n)
repeat(n) == [i \in 1..n |-> "*"]

\* variant: the threshold test written with < instead of <=
maskSensitiveValue_Strict(value) ==
  IF Len(value) < 8 THEN repeat(Len(value))
  ELSE SubSeq(value, 1, 4) \o repeat(Len(value) - 8)
       \o SubSeq(value, Len(value) - 3, Len(value))

\* MCPLogger.maskSensitiveValue and ConfigManager.maskSensitiveValue, for a
\* string value
maskSensitiveValue(value) ==
  IF Len(value) <= 8 THEN repeat(Len(value))
  ELSE SubSeq(value, 1, 4) \o repeat(Len(value) - 8)
       \o SubSeq(value, Len(value) - 3, Len(value))

\* identifiers handed to the helpers: bare numeric ids, a bare word, ids
\* that are qualified already, and the bare prefix
NumericIds   == {<<"123">>, <<"999">>, <<"0">>}
IdTypes      == {"Product", "Order"}
QualifiedIds ==
  {GidPrefix \o <<T, "/">> \o n : T \in IdTypes, n \in NumericIds} \cup {GidPrefix}
IdInputs     == NumericIds \cup QualifiedIds \cup {<<"abc">>}

\* sensitive values: every string over two characters up to MaxValueLen long
ValueChars == {"a", "b"}
Values == UNION {[1..n -> ValueChars] : n \in 0..MaxValueLen}

NoUtil == [fn |-> "none", arg |-> <<>>, type |-> "", out |-> <<>>,
           again |-> <<>>, num |-> <<>>, done |-> FALSE]

\* --------------------------------------------------------------- Init

NoRes ==[neterr |-> FALSE, status |-> 0, body |-> "", json |-> FALSE,
          access_token |-> NoToken, expires_in |-> 0]

\* the state after construction of the start-up sequence, the token provider
\* and the client
\* the state before the module body of index.ts has run, but for cfg
InitRest ==
  /\ pc = "start"
  /\ exitCode = -1
  /\ startupError = NoError
  /\ accessToken = NoToken
  /\ expiresAt = 0
  /\ refreshTimer = NoTimer
  /\ graphqlClient = FALSE
  /\ authPc = "none"
  /\ timers = {}
  /\ now = 0
  /\ header = NoToken
  /\ clientHeader = NoToken
  /\ toolsExposed = FALSE
  /\ calls = [i \in 1..MaxCalls |-> NoCall]
  /\ hist = [issued |-> 0, exchanges |-> 0, failed |-> FALSE,
             lastOutcome |-> "none", lastOkAt |-> 0, lastExpiresIn |-> 0,
             lastOkToken |-> NoToken, lastFailAt |-> 0, fetchStartedAt |-> 0,
             initRes |-> NoRes, destroyed |-> FALSE, cleared |-> FALSE,
             startedAtDestroy |-> 0]

InitBase ==
  /\ cfg \in [accessToken : BOOLEAN, clientId : BOOLEAN, clientSecret : BOOLEAN,
              domain : BOOLEAN, retryAttempts : 0..MaxRetry]
  /\ InitRest

Init ==
  /\ InitBase
  /\ registry = NoRegistry
  /\ setting = NoSetting
  /\ toolRun = NoToolRun
  /\ transport = "none"
  /\ util = NoUtil

\* the answer is a well-formed grant (history bookkeeping only)
Granted(res) == ~res.neterr /\ res.status = 200 /\ res.json

\* history after an exchange that ended at time t with answer res
HistAfter(res, t) ==
  IF Granted(res)
  THEN [hist EXCEPT !.issued = res.access_token, !.lastOutcome = "ok",
                    !.lastOkAt = t, !.lastExpiresIn = res.expires_in,
                    !.lastOkToken = res.access_token, !.cleared = FALSE]
  ELSE [hist EXCEPT !.lastOutcome = "fail", !.lastFailAt = t,
                    !.failed = TRUE, !.cleared = FALSE]

\* ------------------------------------------------------- start-up (index.ts)

\* index.ts lines 83-452 run without suspension: create the GraphQLClient
\* with the resolved token, attach it to the auth manager, initialise and
\* register the tools, connect the transport.  ShopifyClient builds its own
\* GraphQLClient from the configured SHOPIFY_ACCESS_TOKEN.
CreateClientAndTools(tok, hasAuth) ==
  /\ header' = tok
  /\ clientHeader' = tok
  /\ graphqlClient' = hasAuth
  /\ toolsExposed' = TRUE
  /\ pc' = "running"
  /\ exitCode' = exitCode
  /\ startupError' = startupError

\* index.ts lines 28-79, up to the first suspension
StartUp ==
  /\ pc = "start"
  /\ IF ~cfg.accessToken /\ ~useClientCredentials
     THEN /\ pc' = "exited" /\ exitCode' = 1
          /\ startupError' = [kind |-> "credentials", status |-> 0, body |-> ""]
          /\ UNCHANGED <<authVars, header, clientHeader, toolsExposed, hist>>
     ELSE IF ~cfg.domain
     THEN /\ pc' = "exited" /\ exitCode' = 1
          /\ startupError' = [kind |-> "domain", status |-> 0, body |-> ""]
          /\ UNCHANGED <<authVars, header, clientHeader, toolsExposed, hist>>
     ELSE IF useClientCredentials
     THEN \* auth = new ShopifyAuth(...); await auth.initialize()
          /\ pc' = "initialize"
          /\ authPc' = "fetching"
          /\ hist' = [hist EXCEPT !.exchanges = @ + 1, !.fetchStartedAt = now]
          /\ UNCHANGED <<exitCode, startupError, accessToken, expiresAt,
                         refreshTimer, graphqlClient, timers, header,
                         clientHeader, toolsExposed>>
     ELSE /\ CreateClientAndTools(StaticToken, FALSE)
          /\ UNCHANGED <<accessToken, expiresAt, refreshTimer, authPc, timers, hist>>
  /\ UNCHANGED <<extVars, cfg, now, calls>>

\* the exchange started by initialize() ends after d ms with answer res;
\* on success initialize() schedules the refresh and the module body goes on
InitializeDone ==
  /\ pc = "initialize" /\ authPc = "fetching"
  /\ \E d \in FetchLatencySet, res \in Responses(hist.issued + 1) :
       LET t == now + d
           r == fetchToken(res, accessToken, expiresAt, t)
           tm == scheduleRefresh(r.expiresAt, t, "ok")
       IN /\ now' = t
          /\ authPc' = "idle"
          /\ accessToken' = r.accessToken
          /\ expiresAt' = r.expiresAt
          /\ hist' = [HistAfter(res, t) EXCEPT !.initRes = res]
          /\ IF r.threw
             THEN \* the rejection leaves the module body: the process dies
                  /\ pc' = "crashed" /\ exitCode' = 1
                  /\ startupError' = r.error
                  /\ UNCHANGED <<refreshTimer, timers, graphqlClient, header,
                                 clientHeader, toolsExposed>>
             ELSE /\ refreshTimer' = tm
                  /\ timers' = timers \cup {tm}
                  /\ CreateClientAndTools(r.accessToken, TRUE)
  /\ UNCHANGED <<extVars, cfg, calls>>

\* ------------------------------------------------ background refresh

\* variant: a timer that fired stays pending, as one made by setInterval
afterFire_Interval(pending, tm) == pending

\* setTimeout: a timer fires once; when its callback runs it is no longer
\* pending
afterFire(pending, tm) == pending \ {tm}

\* the timer set by scheduleRefresh fires: the callback calls fetchToken()
RefreshTimerFires ==
  /\ pc = "running"
  /\ hist.exchanges < MaxExchanges
  /\ \E tm \in timers :
       /\ tm.kind = "refresh" /\ tm.due <= now
       /\ timers' = afterFire(timers, tm)
  /\ authPc' = "fetching"
  /\ hist' = [hist EXCEPT !.exchanges = @ + 1, !.fetchStartedAt = now]
  /\ UNCHANGED <<extVars, cfg, mainVars, accessToken, expiresAt, refreshTimer,
                 graphqlClient, now, header, clientHeader, calls>>

\* the background exchange ends: on success the token and the attached
\* client's header are replaced and the next refresh is scheduled; on
\* failure the 60 s retry timer is set
RefreshDone ==
  /\ pc = "running" /\ authPc = "fetching"
  /\ \E d \in FetchLatencySet, res \in Responses(hist.issued + 1) :
       LET t == now + d
           r == fetchToken(res, accessToken, expiresAt, t)
           tm == IF r.threw THEN retryTimer(t)
                 ELSE scheduleRefresh(r.expiresAt, t, "ok")
       IN /\ now' = t
          /\ accessToken' = r.accessToken
          /\ expiresAt' = r.expiresAt
          /\ header' = IF ~r.threw /\ graphqlClient THEN r.accessToken ELSE header
          /\ refreshTimer' = tm
          /\ timers' = timers \cup {tm}
          /\ hist' = HistAfter(res, t)
  /\ authPc' = "idle"
  /\ UNCHANGED <<extVars, cfg, mainVars, graphqlClient, clientHeader, calls>>

\* the 60 s timer fires: its callback is scheduleRefresh()
RetryTimerFires ==
  /\ pc = "running"
  /\ \E tm \in timers :
       /\ tm.kind = "retry" /\ tm.due <= now
       /\ LET nt == scheduleRefresh(expiresAt, now, "fail")
          IN /\ timers' = afterFire(timers, tm) \cup {nt}
             /\ refreshTimer' = nt
  /\ UNCHANGED <<extVars, cfg, mainVars, accessToken, expiresAt, graphqlClient, authPc,
                 now, header, clientHeader, calls, hist>>

\* ShopifyAuth.destroy(); a run calls it at most once
destroy ==
  /\ authPc # "none"
  /\ pc \in {"initialize", "running"}
  /\ ~hist.destroyed
  /\ IF refreshTimer # NoTimer
     THEN /\ timers' = timers \ {refreshTimer}
          /\ refreshTimer' = NoTimer
     ELSE UNCHANGED <<timers, refreshTimer>>
  /\ hist' = [hist EXCEPT !.destroyed = TRUE, !.cleared = TRUE,
                          !.startedAtDestroy = hist.exchanges]
  /\ UNCHANGED <<extVars, cfg, mainVars, accessToken, expiresAt, graphqlClient, authPc,
                 now, header, clientHeader, calls>>

\* time passes until the earliest pending timer is due
Advance ==
  /\ pc = "running"
  /\ timers # {}
  /\ \A tm \in timers : tm.due > now
  /\ \E tm \in timers :
       /\ \A o \in timers : tm.due <= o.due
       /\ now' = tm.due
  /\ UNCHANGED <<extVars, cfg, mainVars, authVars, header, clientHeader, calls, hist>>

\* ------------------------------------------- ShopifyClient (query / mutate)

\* what one this.client.request(...) may end in: a result, a ClientError
\* carrying the response status, or another error (timeout, network)
Outcomes ==
  {[type |-> "ok", status |-> 200], [type |-> "other", status |-> 0]}
  \cup {[type |-> "clientError", status |-> s] : s \in StatusSet}

\* the credential in force: the provider's token, or the static token
currentCredential == IF authPc = "none" THEN StaticToken ELSE accessToken

\* variant: the lower bound of the 4xx range is off by one
isClientError4xx_OffByOne(out) ==
  out.type = "clientError" /\ out.status > 400 /\ out.status < 500

\* query: if (error instanceof ClientError) ... status >= 400 && status < 500
isClientError4xx(out) ==
  out.type = "clientError" /\ out.status >= 400 /\ out.status < 500

\* variant: the loop test written with < instead of <=
loopContinues_Strict(attempt, N) == attempt < N

\* query: for (let attempt = 0; attempt <= this.retryAttempts; attempt++)
loopContinues(attempt, N) == attempt <= N

\* variant: the delay is not capped
calculateRetryDelay_NoCap(attempt, jitter) ==
  baseDelay * Pow2(attempt) + jitter

\* ShopifyClient.calculateRetryDelay, jitter = Math.random() * 1000
calculateRetryDelay(attempt, jitter) ==
  Min(baseDelay * Pow2(attempt) + jitter, maxDelay)

\* query: the loop test and, if it passes, the next request; otherwise the
\* code after the loop ("All retries exhausted")
queryLoop(c, N, hdr) ==
  IF loopContinues(c.attempt, N)
  THEN [c EXCEPT !.pc = "inflight", !.sent = @ + 1, !.tok = hdr]
  ELSE [c EXCEPT !.pc = "thrown", !.error = "exhausted", !.attempts = N + 1]

\* variant: the catch block sleeps after the last attempt as well
queryCatch_SleepsLast(c, out, N, jitter, hdr) ==
  IF isClientError4xx(out)
  THEN [c EXCEPT !.pc = "thrown", !.error = "client4xx", !.status = out.status]
  ELSE [c EXCEPT !.pc = "sleeping", !.sleeps = @ + 1,
                 !.delay = calculateRetryDelay(c.attempt, jitter)]

\* query: the catch block for a failed attempt
queryCatch(c, out, N, jitter, hdr) ==
  IF isClientError4xx(out)
  THEN [c EXCEPT !.pc = "thrown", !.error = "client4xx", !.status = out.status]
  ELSE IF c.attempt < N
  THEN [c EXCEPT !.pc = "sleeping", !.sleeps = @ + 1,
                 !.delay = calculateRetryDelay(c.attempt, jitter)]
  ELSE queryLoop([c EXCEPT !.attempt = @ + 1], N, hdr)

\* variant: mutate retries a transient failure like query does
mutateCatch_Retrying(c, out, N, hdr) ==
  IF out.type = "clientError"
  THEN [c EXCEPT !.pc = "thrown", !.error = "mutationClient", !.status = out.status]
  ELSE IF c.sent <= N
  THEN [c EXCEPT !.pc = "inflight", !.sent = @ + 1, !.tok = hdr]
  ELSE [c EXCEPT !.pc = "thrown", !.error = "mutationFailed"]

\* mutate: the catch block
mutateCatch(c, out, N, hdr) ==
  IF out.type = "clientError"
  THEN [c EXCEPT !.pc = "thrown", !.error = "mutationClient", !.status = out.status]
  ELSE [c EXCEPT !.pc = "thrown", !.error = "mutationFailed"]

\* history of a call: requests that failed transiently, and the number of the
\* first request that failed with a 4xx status (out is what the request
\* itself ended in)
Noted(c, old, out) ==
  [c EXCEPT !.transient = IF out.type # "ok" /\ ~(out.type = "clientError" /\ out.status \in 400..499)
                          THEN old.transient + 1 ELSE old.transient,
            !.first4xx = IF old.first4xx = 0 /\ out.type = "clientError" /\ out.status \in 400..499
                         THEN old.sent ELSE old.first4xx]

CanStart(i) ==
  /\ pc = "running"
  /\ calls[i].kind = "none"
  /\ IF i = 1 THEN TRUE ELSE calls[i - 1].kind # "none"

CallFrame == UNCHANGED <<extVars, cfg, mainVars, authVars, now, header, clientHeader, hist>>

\* query() is called: the first request goes out
StartQuery(i) ==
  /\ CanStart(i)
  /\ calls' = [calls EXCEPT ![i] =
       [queryLoop([NoCall EXCEPT !.kind = "query"], cfg.retryAttempts, clientHeader)
          EXCEPT !.want = currentCredential]]
  /\ CallFrame

\* a request of query() ends; a response that is returned by healthCheck's
\* query ({ shop { id name } }) is far below the logger's truncation length,
\* so only query() proper carries the logging of the response
QueryAttemptDone(i) ==
  /\ calls[i].kind = "query" /\ calls[i].pc = "inflight"
  /\ \E out \in Outcomes, jitter \in JitterSet, json \in JsonSet :
       LET c == calls[i]
           e == tryBlock(out, toolRun.logLevel, toolRun.debugMode, json)
           n == IF e.type = "ok"
                THEN [c EXCEPT !.pc = "returned"]
                ELSE queryCatch(c, e, cfg.retryAttempts, jitter, clientHeader)
       IN calls' = [calls EXCEPT ![i] =
            Noted([n EXCEPT !.want = IF n.sent > c.sent THEN currentCredential ELSE @,
                            !.logFails = IF e # out THEN @ + 1 ELSE @],
                  c, out)]
  /\ CallFrame

\* the sleep before a retry ends: attempt++ and the next request
QueryWake(i) ==
  /\ calls[i].kind = "query" /\ calls[i].pc = "sleeping"
  /\ calls' = [calls EXCEPT ![i] =
       [queryLoop([calls[i] EXCEPT !.attempt = @ + 1, !.delay = 0],
                  cfg.retryAttempts, clientHeader)
          EXCEPT !.want = currentCredential]]
  /\ CallFrame

\* mutate() is called: its one request goes out
StartMutate(i) ==
  /\ CanStart(i)
  /\ calls' = [calls EXCEPT ![i] =
       [NoCall EXCEPT !.kind = "mutate", !.pc = "inflight", !.sent = 1,
                      !.tok = clientHeader, !.want = currentCredential]]
  /\ CallFrame

\* the request of mutate() ends
MutateDone(i) ==
  /\ calls[i].kind = "mutate" /\ calls[i].pc = "inflight"
  /\ \E out \in Outcomes, json \in JsonSet :
       LET c == calls[i]
           e == tryBlock(out, toolRun.logLevel, toolRun.debugMode, json)
           n == IF e.type = "ok"
                THEN [c EXCEPT !.pc = "returned"]
                ELSE mutateCatch(c, e, cfg.retryAttempts, clientHeader)
       IN calls' = [calls EXCEPT ![i] =
            Noted([n EXCEPT !.logFails = IF e # out THEN @ + 1 ELSE @], c, out)]
  /\ CallFrame

\* a tool of index.ts calls shopifyClient.request(...) on the attached client
StartRequest(i) ==
  /\ CanStart(i)
  /\ calls' = [calls EXCEPT ![i] =
       [NoCall EXCEPT !.kind = "request", !.pc = "inflight", !.sent = 1,
                      !.tok = header, !.want = currentCredential]]
  /\ CallFrame

\* that request ends; the tool rethrows a failure
RequestDone(i) ==
  /\ calls[i].kind = "request" /\ calls[i].pc = "inflight"
  /\ \E out \in Outcomes :
       LET c == calls[i]
           n == IF out.type = "ok"
                THEN [c EXCEPT !.pc = "returned"]
                ELSE [c EXCEPT !.pc = "thrown", !.error = "tool", !.status = out.status]
       IN calls' = [calls EXCEPT ![i] = Noted(n, c, out)]
  /\ CallFrame

\* --------------------------------------------------------------- helpers

UtilFrame == UNCHANGED <<cfg, mainVars, authVars, now, header, clientHeader, calls,
                         hist, registry, setting, toolRun, transport>>

\* an identifier is normalised, normalised again, and its number extracted
NormaliseId ==
  /\ util.fn = "id" /\ ~util.done
  /\ LET g == toGraphQLId(util.arg, util.type)
     IN util' = [util EXCEPT !.out = g, !.again = toGraphQLId(g, util.type),
                             !.num = extractNumericId(g), !.done = TRUE]
  /\ UtilFrame

\* a sensitive value is masked
MaskValue ==
  /\ util.fn = "mask" /\ ~util.done
  /\ util' = [util EXCEPT !.out = maskSensitiveValue(util.arg), !.done = TRUE]
  /\ UtilFrame

\* -------------------------------------------------------------- settings

\* the module body resolves a setting from its flag and environment variable
ResolveSetting ==
  /\ setting.key # "none" /\ setting.state = "unresolved"
  /\ setting' = [setting EXCEPT !.state = "resolved",
                                !.value = resolve(setting.key, setting.flag, setting.env)]
  /\ UNCHANGED <<cfg, mainVars, authVars, now, header, clientHeader, calls, hist,
                 registry, toolRun, transport, util>>

\* ---------------------------------------------------------- healthCheck

\* variant: a failure of the query is passed on to the caller
healthCheck_NoCatch(c) ==
  IF c.pc = "returned" THEN [c EXCEPT !.hc = "true"] ELSE c

\* ShopifyClient.healthCheck around its query: try { await this.query(...);
\* return true } catch { return false }; c is the state the query is left in
healthCheck(c) ==
  IF c.pc = "returned" THEN [c EXCEPT !.hc = "true"]
  ELSE IF c.pc = "thrown" THEN [c EXCEPT !.pc = "returned", !.hc = "false"]
  ELSE c

\* healthCheck() is called: the first request of its query goes out
StartHealthCheck(i) ==
  /\ CanStart(i)
  /\ calls' = [calls EXCEPT ![i] =
       healthCheck(
         [queryLoop([NoCall EXCEPT !.kind = "health"], cfg.retryAttempts, clientHeader)
            EXCEPT !.want = currentCredential])]
  /\ CallFrame

\* a request of healthCheck's query ends
HealthAttemptDone(i) ==
  /\ calls[i].kind = "health" /\ calls[i].pc = "inflight"
  /\ \E out \in Outcomes, jitter \in JitterSet :
       LET c == calls[i]
           n == IF out.type = "ok"
                THEN [c EXCEPT !.pc = "returned"]
                ELSE queryCatch(c, out, cfg.retryAttempts, jitter, clientHeader)
       IN calls' = [calls EXCEPT ![i] =
            healthCheck(
              Noted([n EXCEPT !.want = IF n.sent > c.sent THEN currentCredential ELSE @],
                    c, out))]
  /\ CallFrame

\* the sleep before a retry of healthCheck's query ends
HealthWake(i) ==
  /\ calls[i].kind = "health" /\ calls[i].pc = "sleeping"
  /\ calls' = [calls EXCEPT ![i] =
       healthCheck(
         [queryLoop([calls[i] EXCEPT !.attempt = @ + 1, !.delay = 0],
                    cfg.retryAttempts, clientHeader)
            EXCEPT !.want = currentCredential])]
  /\ CallFrame

\* index.ts: server.connect(transport).then(() => {}).catch(console.error):
\* the connection is made or fails; a failure is written to the error stream
ConnectDone ==
  /\ pc = "running" /\ transport = "none"
  /\ \E ok \in BOOLEAN : transport' = IF ok THEN "connected" ELSE "failed"
  /\ UNCHANGED <<cfg, mainVars, authVars, now, header, clientHeader, calls, hist,
                 registry, setting, toolRun, util>>

\* ------------------------------------------------------------ tool calls

ToolFrame == UNCHANGED <<cfg, mainVars, authVars, now, header, clientHeader, hist,
                         registry, setting, transport, util>>

\* a tool is called.  BaseTool.execute validates the arguments first: invalid
\* ones end the call in the catch block before anything is sent.  Otherwise
\* executeImpl runs up to its await of the client call.  (The arguments of a
\* tool of index.ts were validated by the server before its handler runs.)
ToolStart ==
  /\ toolRun.stage = "idle"
  /\ CanStart(1)
  /\ \E tool \in ToolSet, args \in {"valid", "invalid"}, debugMode \in BOOLEAN,
        logLevel \in LogLevels, errJson \in JsonSet :
     \E given \in GivenSet(tool) :
       /\ tool \in LegacyTools => args = "valid"
       /\ tool \in ListTools => (args = "valid" <=> schemaAccepts(given))
       /\ IF args = "invalid"
          THEN /\ toolRun' = [toolRun EXCEPT
                    !.tool = tool, !.stage = "done", !.args = args,
                    !.given = given,
                    !.debugMode = debugMode, !.logLevel = logLevel,
                    !.implThrew = TRUE,
                    !.result = executeCatch(
                       Thrown("TOOL_EXECUTION_ERROR", "Invalid arguments for tool", <<>>),
                       debugMode, errJson)]
               /\ calls' = calls
          ELSE /\ errJson.len = 300 /\ errJson.closable
               /\ toolRun' = [toolRun EXCEPT !.tool = tool, !.stage = "waiting",
                                             !.given = given,
                                             !.variables =
                                               buildVariables(tool, validateArgs(given)),
                                             !.args = args, !.debugMode = debugMode,
                                             !.logLevel = logLevel]
               /\ calls' = [calls EXCEPT ![1] =
                    IF CallKind(tool) = "query"
                    THEN [queryLoop([NoCall EXCEPT !.kind = "query"],
                                    cfg.retryAttempts, clientHeader)
                            EXCEPT !.want = currentCredential]
                    ELSE [NoCall EXCEPT !.kind = CallKind(tool), !.pc = "inflight",
                                        !.sent = 1,
                                        !.tok = IF tool \in LegacyTools
                                                THEN header ELSE clientHeader,
                                        !.want = currentCredential]]
  /\ ToolFrame

\* the client call of the tool has ended: the rest of executeImpl and of
\* execute run.  ue is the userErrors of the payload, reshape whether reading
\* the payload throws (for the products list: response.products is missing),
\* resp the products connection of the response (at most as many edges as
\* were asked for), dataJson and errJson the JSON texts of what is logged (a
\* products list without items is short)
ToolFinish ==
  /\ toolRun.stage = "waiting"
  /\ calls[1].pc \in {"returned", "thrown"}
  /\ \E ue \in UserErrorsSet, reshape \in BOOLEAN, dataJson \in JsonSet,
        errJson \in JsonSet, resp \in ResponseSet :
       /\ (calls[1].pc = "thrown" \/ toolRun.tool \notin MutationTools)
            => ue = NoUserErrors
       /\ calls[1].pc = "thrown" => ~reshape
       /\ (toolRun.tool # "get-products" \/ calls[1].pc = "thrown" \/ reshape)
            => resp = NoResponse
       /\ toolRun.given.limit # Undef => Len(resp.edges) <= toolRun.given.limit.n
       /\ (toolRun.tool = "get-products" /\ Len(resp.edges) = 0)
            => dataJson.len < TRUNCATE_AT
       /\ LET e   == executeImpl(toolRun.tool, calls[1], ue, reshape)
              res == IF toolRun.tool \in LegacyTools
                     THEN legacyExecute(calls[1], ue, reshape)
                     ELSE execute(e, toolRun.debugMode, dataJson, errJson)
          IN toolRun' = [toolRun EXCEPT
               !.stage = "done", !.userErrors = ue, !.reshape = reshape,
               !.dataJson = dataJson, !.response = resp,
               !.products = IF res.flag = "true" THEN extractEdges(resp) ELSE <<>>,
               !.implThrew = (calls[1].pc = "thrown") \/ reshape
                             \/ (ue.present /\ Len(ue.list) > 0)
                             \/ (toolRun.tool \in LegacyTools /\ ~ue.present),
               !.result = res]
  /\ calls' = calls
  /\ ToolFrame

\* ------------------------------------------------ the package registry

\* the tools registered on the server: index.ts makes its fourteen
\* server.tool(...) calls in one run, whatever the configuration says
RegisteredTools == IF toolsExposed THEN ServerTools ELSE {}

\* import of toolPackageManager.ts: the ConfigManager singleton is built
\* first (ConfigSchema.parse), then new ToolPackageManager() takes the
\* active package name, loads the packages and validates the name
BuildRegistry ==
  /\ registry.state = "unbuilt"
  /\ LET parsed == parseConfig(cfg, registry.name)
         pkgs   == loadToolPackages(registry.file)
         valid  == validatePackage(registry.name, pkgs)
     IN registry' =
          IF parsed.threw
          THEN [registry EXCEPT !.state = "failed", !.error = parsed.error]
          ELSE IF valid.threw
          THEN [registry EXCEPT !.state = "failed", !.activePackage = registry.name,
                                !.toolPackages = pkgs, !.error = valid.error]
          ELSE [registry EXCEPT !.state = "built", !.activePackage = registry.name,
                                !.toolPackages = pkgs]
  /\ UNCHANGED <<cfg, mainVars, authVars, now, header, clientHeader, calls, hist,
                 setting, toolRun, transport, util>>

\* -------------------------------------------------------- specifications

\* the token provider and the start-up sequence
NextAuth == StartUp \/ InitializeDone \/ RefreshTimerFires \/ RefreshDone
            \/ RetryTimerFires \/ destroy \/ Advance

SpecAuth == Init /\ [][NextAuth]_vars

\* the client's calls, any number up to MaxCalls running concurrently
NextClient ==
  \/ StartUp
  \/ InitializeDone
  \/ \E i \in 1..MaxCalls : StartQuery(i)
  \/ \E i \in 1..MaxCalls : QueryAttemptDone(i)
  \/ \E i \in 1..MaxCalls : QueryWake(i)
  \/ \E i \in 1..MaxCalls : StartMutate(i)
  \/ \E i \in 1..MaxCalls : MutateDone(i)

SpecClient == Init /\ [][NextClient]_vars

\* one call running while the provider refreshes the token
NextSwap ==
  \/ StartUp
  \/ InitializeDone
  \/ RefreshTimerFires
  \/ RefreshDone
  \/ RetryTimerFires
  \/ Advance
  \/ StartQuery(1)
  \/ QueryAttemptDone(1)
  \/ QueryWake(1)
  \/ StartRequest(1)
  \/ RequestDone(1)

SpecSwap == Init /\ [][NextSwap]_vars

\* the resolution of one setting, for every setting and every flag and
\* environment value
InitSettings ==
  /\ InitBase
  /\ registry = NoRegistry
  /\ setting \in {[NoSetting EXCEPT !.key = k, !.flag = f, !.env = e] :
                    k \in SettingKeys, f \in UNION {FlagValues(j) : j \in SettingKeys},
                    e \in UNION {EnvValues(j) : j \in SettingKeys}}
  /\ setting.flag \in FlagValues(setting.key)
  /\ setting.env \in EnvValues(setting.key)
  /\ toolRun = NoToolRun
  /\ transport = "none"
  /\ util = NoUtil

NextSettings == ResolveSetting

SpecSettings == InitSettings /\ [][NextSettings]_vars

\* the helpers applied to every identifier and every sensitive value
InitHelpers ==
  /\ InitBase
  /\ cfg = [accessToken |-> TRUE, clientId |-> FALSE, clientSecret |-> FALSE,
            domain |-> TRUE, retryAttempts |-> 0]
  /\ registry = NoRegistry
  /\ setting = NoSetting
  /\ toolRun = NoToolRun
  /\ transport = "none"
  /\ util \in {[NoUtil EXCEPT !.fn = "id", !.arg = a, !.type = T] :
                 a \in IdInputs, T \in IdTypes}
              \cup {[NoUtil EXCEPT !.fn = "mask", !.arg = v] : v \in Values}

NextHelpers == NormaliseId \/ MaskValue

SpecHelpers == InitHelpers /\ [][NextHelpers]_vars

\* connectivity checks and the connection of the transport
NextHealth ==
  \/ StartUp
  \/ InitializeDone
  \/ ConnectDone
  \/ \E i \in 1..MaxCalls : StartHealthCheck(i)
  \/ \E i \in 1..MaxCalls : HealthAttemptDone(i)
  \/ \E i \in 1..MaxCalls : HealthWake(i)

SpecHealth == Init /\ [][NextHealth]_vars

\* one query() on a client configured with up to MaxBackoff retries
InitBackoff ==
  /\ cfg \in [accessToken : {TRUE}, clientId : {FALSE}, clientSecret : {FALSE},
              domain : {TRUE}, retryAttempts : 0..MaxBackoff]
  /\ InitRest
  /\ registry = NoRegistry
  /\ setting = NoSetting
  /\ toolRun = NoToolRun
  /\ transport = "none"
  /\ util = NoUtil

NextBackoff ==
  \/ StartUp
  \/ StartQuery(1)
  \/ QueryAttemptDone(1)
  \/ QueryWake(1)

SpecBackoff == InitBackoff /\ [][NextBackoff]_vars

\* one tool call, from its arguments to its result
NextToolCall ==
  \/ StartUp
  \/ InitializeDone
  \/ ToolStart
  \/ QueryAttemptDone(1)
  \/ QueryWake(1)
  \/ MutateDone(1)
  \/ RequestDone(1)
  \/ ToolFinish

SpecToolCall == Init /\ [][NextToolCall]_vars

\* the package registry next to the start-up sequence, for every configured
\* package name and every content of config/tool_packages.json
InitTools ==
  /\ InitBase
  /\ registry \in {[NoRegistry EXCEPT !.name = n, !.file = f] :
                     n \in PackageNameSet, f \in FileSet}
  /\ setting = NoSetting
  /\ toolRun = NoToolRun
  /\ transport = "none"
  /\ util = NoUtil

NextTools == StartUp \/ InitializeDone \/ BuildRegistry

SpecTools == InitTools /\ [][NextTools]_vars

Next ==
  \/ NextAuth
  \/ NextClient
  \/ \E i \in 1..MaxCalls : StartRequest(i)
  \/ \E i \in 1..MaxCalls : RequestDone(i)
  \/ BuildRegistry
  \/ ToolStart
  \/ ToolFinish
  \/ NextHealth
  \/ ResolveSetting
  \/ NextHelpers

Spec == Init /\ [][Next]_vars

\* ------------------------------------------------------------ properties

Terminal(c) == c.pc \in {"returned", "thrown"}

\* a step changes at most one call
OneCallPerStep ==
  \A i \in 1..MaxCalls : calls'[i] # calls[i] =>
    \A j \in 1..MaxCalls : j # i => calls'[j] = calls[j]

C1_Inv ==
  \A i \in 1..MaxCalls :
    LET c == calls[i] IN
    c.kind = "query" =>
      /\ c.sent <= cfg.retryAttempts + 1
      /\ (Terminal(c) /\ c.transient = c.sent) =>
            /\ c.pc = "thrown" /\ c.error = "exhausted"
            /\ c.sent = cfg.retryAttempts + 1
            /\ c.attempts = cfg.retryAttempts + 1

\* C1: with retry count N, a query() whose every attempt fails with a
\* transient error makes exactly N+1 attempts of its own and then fails with
\* the exhausted error reporting attempts = N+1, whatever the other
\* concurrent calls do; no step of one call changes another call.
C1_ExhaustedAfterNPlus1 == []C1_Inv /\ [][OneCallPerStep]_vars

\* two concurrent queries, both exhausted after N+1 > 1 attempts each
C1_Witness ==
  /\ cfg.retryAttempts >= 1
  /\ \E i, j \in 1..MaxCalls :
       /\ i # j
       /\ calls[i].kind = "query" /\ calls[j].kind = "query"
       /\ calls[i].error = "exhausted" /\ calls[j].error = "exhausted"
       /\ calls[i].sent = cfg.retryAttempts + 1
       /\ calls[j].sent = cfg.retryAttempts + 1

\* C2: once an attempt of a query() has failed with a 4xx status the call
\* has ended, at that attempt, with the client error carrying that status,
\* and no sleep followed it (one sleep per earlier failed attempt only).
C2_No4xxRetry ==
  \A i \in 1..MaxCalls :
    LET c == calls[i] IN
    (c.kind = "query" /\ c.first4xx > 0) =>
      /\ c.pc = "thrown" /\ c.error = "client4xx"
      /\ c.status >= 400 /\ c.status <= 499
      /\ c.sent = c.first4xx
      /\ c.sleeps = c.first4xx - 1

\* a 4xx on the first attempt with N > 0, and a 4xx on a later attempt
C2_Witness ==
  /\ cfg.retryAttempts >= 1
  /\ \E i, j \in 1..MaxCalls :
       /\ calls[i].kind = "query" /\ calls[i].first4xx = 1 /\ calls[i].sent = 1
       /\ calls[j].kind = "query" /\ calls[j].first4xx = 2 /\ calls[j].sent = 2

\* C3: a mutate() sends exactly one request; any failure of it ends the call
\* at once with a classified error, without a sleep and without a resend.
C3_MutateOnce ==
  \A i \in 1..MaxCalls :
    LET c == calls[i] IN
    c.kind = "mutate" =>
      /\ c.sent = 1
      /\ c.sleeps = 0
      /\ (c.transient > 0 \/ c.first4xx > 0) =>
            /\ c.pc = "thrown"
            /\ c.error \in {"mutationClient", "mutationFailed"}

\* with retries configured, one mutate failed with a 5xx / network error
\* and another with a 4xx
C3_Witness ==
  /\ cfg.retryAttempts >= 1
  /\ \E i, j \in 1..MaxCalls :
       /\ calls[i].kind = "mutate" /\ calls[i].transient = 1 /\ calls[i].pc = "thrown"
       /\ calls[j].kind = "mutate" /\ calls[j].first4xx = 1 /\ calls[j].pc = "thrown"

\* C4: after a successful refresh the stored token and the header of the
\* attached client are the new token, and every request attempt carries the
\* token that was in force when the attempt started, retries of a query()
\* begun before the refresh included.
C4_RequestsCarryCurrentToken ==
  /\ (pc = "running" /\ authPc # "none") =>
        /\ accessToken = hist.lastOkToken
        /\ header = hist.lastOkToken
  /\ \A i \in 1..MaxCalls :
        calls[i].sent > 0 =>
          /\ calls[i].tok = calls[i].want
          /\ calls[i].tok \in (1..hist.issued) \cup {StaticToken}

\* C5: getAccessToken() throws exactly while no exchange has succeeded and
\* otherwise returns the token of the latest successful exchange; expiresAt
\* and the attached client's header are those of that exchange too, so a
\* failed refresh changes none of them.
C5_TokenOfLastSuccess ==
  /\ getAccessToken.threw <=> hist.lastOkToken = NoToken
  /\ ~getAccessToken.threw => getAccessToken.value = hist.lastOkToken
  /\ hist.lastOkToken # NoToken =>
        /\ expiresAt = hist.lastOkAt + hist.lastExpiresIn * 1000
        /\ graphqlClient => header = hist.lastOkToken

\* a refresh succeeded and a later one failed
C5_Witness ==
  /\ hist.lastOutcome = "fail"
  /\ hist.lastOkToken = 2
  /\ authPc = "idle"

\* the latest exchange was a background one and failed
BackgroundFailure == hist.lastOutcome = "fail" /\ hist.exchanges > 1

\* C6: a failed background exchange leaves the process running; the next
\* exchange starts 60 s after the failure (unless destroy() cancelled the
\* wait), after every failure; after a success that follows a failure the
\* refresh is scheduled at expiresAt - 5 min (not before the present).
C6_RetryAfter60s ==
  /\ BackgroundFailure => (pc = "running" /\ exitCode = -1)
  /\ (BackgroundFailure /\ authPc = "fetching") =>
        hist.fetchStartedAt = hist.lastFailAt + 60000
  /\ (BackgroundFailure /\ authPc = "idle" /\ ~hist.cleared) =>
        /\ Cardinality(timers) = 1
        /\ \A tm \in timers : tm.due = hist.lastFailAt + 60000
  /\ (hist.failed /\ hist.lastOutcome = "ok" /\ authPc = "idle" /\ ~hist.cleared) =>
        /\ Cardinality(timers) = 1
        /\ \A tm \in timers :
             tm.kind = "refresh" /\ tm.due = Max(expiresAt - 300000, hist.lastOkAt)

\* an exchange started after a failed one, later than the failure
C6_Witness ==
  /\ BackgroundFailure
  /\ authPc = "fetching"
  /\ hist.fetchStartedAt > hist.lastFailAt

\* C7: after a successful exchange at T granting expires_in seconds the
\* refresh timer is due, and the next exchange starts, at
\* T + max(expires_in * 1000 - 300000, 0): T + 3300 s for 3600.
C7_RefreshAtExpiryMinusMargin ==
  /\ (hist.lastOutcome = "ok" /\ authPc = "idle" /\ ~hist.cleared) =>
        /\ Cardinality(timers) = 1
        /\ \A tm \in timers :
             /\ tm.kind = "refresh"
             /\ tm.due = hist.lastOkAt + Max(hist.lastExpiresIn * 1000 - 300000, 0)
             /\ tm.due >= hist.lastOkAt
             /\ hist.lastExpiresIn = 3600 => tm.due = hist.lastOkAt + 3300000
  /\ (hist.lastOutcome = "ok" /\ authPc = "fetching" /\ hist.exchanges > 1) =>
        hist.fetchStartedAt
          = hist.lastOkAt + Max(hist.lastExpiresIn * 1000 - 300000, 0)

\* the refresh of a 3600 s token has fired
C7_Witness ==
  /\ hist.lastOutcome = "ok" /\ hist.lastExpiresIn = 3600
  /\ authPc = "fetching" /\ hist.exchanges > 1
  /\ hist.fetchStartedAt = hist.lastOkAt + 3300000

\* C8 as stated: whenever a provider timer is pending, expiresAt is later
\* than the current time.
C8_ExpiresAtInFuture == timers # {} => expiresAt > now

\* C8 amended: while the refresh timer set by a successful exchange is
\* pending and not overdue, expiresAt is later than the current time.
C8_FreshWhileScheduled ==
  \A tm \in timers :
    (tm.kind = "refresh" /\ tm.setBy = "ok" /\ now <= tm.due) => expiresAt > now

\* the refresh timer set by a successful exchange has become due
C8_Witness ==
  \E tm \in timers :
    tm.kind = "refresh" /\ tm.setBy = "ok" /\ now = tm.due /\ now > hist.lastOkAt

\* C9: once destroy() has returned no provider timer is pending and no
\* further exchange is started.
C9_DestroyStopsRefresh ==
  hist.destroyed => (timers = {} /\ hist.exchanges = hist.startedAtDestroy)

\* C10: a non-2xx answer to the exchange of initialize() ends start-up with
\* an error carrying the status and the body; no token is stored, no timer
\* is set, no client is created and no tool is exposed.
C10_InitFailureIsFatal ==
  hist.initRes.status >= 300 =>
    /\ pc = "crashed"
    /\ startupError.kind = "exchange"
    /\ startupError.status = hist.initRes.status
    /\ startupError.body = hist.initRes.body
    /\ accessToken = NoToken
    /\ timers = {} /\ refreshTimer = NoTimer
    /\ ~graphqlClient /\ header = NoToken /\ clientHeader = NoToken
    /\ ~toolsExposed

\* initialize() was answered 401
C10_Witness ==
  /\ hist.initRes.status = 401 /\ hist.initRes.body = "denied"
  /\ pc = "crashed"

\* ------------------------------------------------------- package registry

Range(f) == {f[k] : k \in DOMAIN f}

\* the registry was built from a configured name that is none of the loaded
\* packages
UnknownName == registry.name \notin DOMAIN loadToolPackages(registry.file)

\* C11: after start-up the set of registered tools is exactly the tool list
\* of the active package (and empty with package "none")
C11_RegisteredIsActivePackage ==
  (pc = "running" /\ registry.state = "built") =>
    RegisteredTools =
      Range(getActiveTools(registry.activePackage, registry.toolPackages).tools)

\* C12: in a built registry isToolEnabled(t) holds exactly for the tools in
\* the list getActiveTools() returns, and for no tool when the active
\* package is "none", whatever the loaded definition of "none" holds
C12_EnabledIffActive ==
  registry.state = "built" =>
    LET r == getActiveTools(registry.activePackage, registry.toolPackages)
    IN /\ ~r.threw
       /\ \A t \in ServerTools \cup {"no-such-tool"} :
            /\ isToolEnabled(t, registry.activePackage, registry.toolPackages)
                 <=> t \in Range(r.tools)
            /\ registry.activePackage = "none" =>
                 ~isToolEnabled(t, registry.activePackage, registry.toolPackages)

\* "none" is the active package of a registry whose loaded file gives the
\* package "none" a tool
C12_Witness ==
  /\ registry.state = "built" /\ registry.activePackage = "none"
  /\ registry.toolPackages["none"] # <<>>

C14_ExecuteNeverThrows ==
  toolRun.stage = "done" =>
    /\ ~toolRun.result.threw
    /\ toolRun.result.flag \in {"true", "false"}
    /\ toolRun.implThrew =>
         toolRun.result.flag = "false" /\ toolRun.result.text # ""

\* C15: a mutation tool whose payload carries user errors returns
\* success:false with the reported pairs in their order, having sent the
\* mutation once; empty or absent user errors do not fail the call
C15_UserErrorsFailTheCall ==
  (toolRun.stage = "done" /\ toolRun.tool \in MutationTools
     /\ calls[1].pc = "returned") =>
    IF toolRun.userErrors.present /\ Len(toolRun.userErrors.list) > 0
    THEN /\ ~toolRun.result.threw
         /\ toolRun.result.flag = "false"
         /\ toolRun.result.pairs = toolRun.userErrors.list
         /\ calls[1].sent = 1
    ELSE (~toolRun.reshape
            /\ ~(toolRun.debugMode /\ toolRun.dataJson.len > 1000
                                   /\ ~toolRun.dataJson.closable)) =>
           ~toolRun.result.threw /\ toolRun.result.flag # "false"


\* ------------------------------------------------------------ healthCheck

\* the attempts of a call that failed, from its history
FailedAttempts(c) == c.transient + (IF c.first4xx > 0 THEN 1 ELSE 0)

\* C16: a healthCheck that has ended did not throw; it returned true when an
\* attempt of its query succeeded and false when the query failed (4xx,
\* retries exhausted, timeout or network error)
C16_HealthCheckNeverThrows ==
  \A i \in 1..MaxCalls :
    LET c == calls[i] IN
    c.kind = "health" =>
      /\ c.pc # "thrown"
      /\ c.pc = "returned" =>
           /\ c.hc \in {"true", "false"}
           /\ c.hc = "true" <=> FailedAttempts(c) < c.sent
           /\ c.hc = "false" => c.error \in {"client4xx", "exhausted"}

\* a healthCheck answered false after its query used up its retries
C16_Witness ==
  \E i \in 1..MaxCalls :
    /\ calls[i].kind = "health" /\ calls[i].pc = "returned"
    /\ calls[i].hc = "false" /\ calls[i].error = "exhausted"
    /\ calls[i].sent = cfg.retryAttempts + 1 /\ cfg.retryAttempts > 0

\* C18: tools are exposed only after a healthCheck returned true, and a
\* transport that fails to connect ends the process with exit code 1
C18_HealthCheckBeforeTools ==
  /\ toolsExposed =>
       \E i \in 1..MaxCalls : calls[i].kind = "health" /\ calls[i].hc = "true"
  /\ transport = "failed" => exitCode = 1


\* --------------------------------------------------------------- start-up

\* the configuration start-up may proceed with: the domain, and a static
\* token or both client credentials
Sufficient ==
  cfg.domain /\ (cfg.accessToken \/ (cfg.clientId /\ cfg.clientSecret))

\* C17: start-up goes past its configuration checks exactly when the domain
\* and either a static token or both client credentials are set; otherwise
\* the process has exited with code 1 and a remediation message, with no
\* token exchange started, no client created and no tool registered
C17_StartupNeedsCredentials ==
  pc # "start" =>
    IF Sufficient
    THEN pc \in {"initialize", "running", "crashed"}
    ELSE /\ pc = "exited" /\ exitCode = 1
         /\ startupError.kind =
              IF cfg.accessToken \/ (cfg.clientId /\ cfg.clientSecret)
              THEN "domain" ELSE "credentials"
         /\ hist.exchanges = 0 /\ authPc = "none" /\ accessToken = NoToken
         /\ header = NoToken /\ clientHeader = NoToken /\ ~graphqlClient
         /\ ~toolsExposed

\* only the client id is set (no secret, no static token), with a domain
C17_Witness ==
  /\ pc = "exited" /\ exitCode = 1 /\ startupError.kind = "credentials"
  /\ cfg.clientId /\ ~cfg.clientSecret /\ ~cfg.accessToken /\ cfg.domain


\* --------------------------------------------------------------- settings

Given(v) == v.t # "undefined"

\* the value precedence gives: the flag's when given, else the environment
\* variable's when set, else the default (numbers read, log levels in capitals)
Expected(key, flag, env) ==
  LET chosen == IF Given(flag) THEN flag
                ELSE IF Given(env) THEN env ELSE Default(key)
  IN IF key \in NumericKeys THEN Num(chosen.n)
     ELSE IF key = "logLevel" /\ chosen.s = "debug" THEN Str("DEBUG", NaN)
     ELSE chosen

\* C19: every setting resolves to the flag's value when the flag is given,
\* else to the environment variable's, else to the default, the flag value
\* 0 of --retryAttempts and --timeout included
C19_FlagEnvDefault ==
  setting.state = "resolved" =>
    setting.value = Expected(setting.key, setting.flag, setting.env)


\* ------------------------------------------------------ built-in packages

\* C21: in a registry built from the built-in packages "none" is empty,
\* "basic" holds no tool that sends a mutation, "full" holds every tool the
\* server registers, and every package is a subset of "full"
C21_DefaultPackages ==
  (registry.state = "built" /\ registry.file.kind # "parsed") =>
    LET P == registry.toolPackages
    IN /\ P["none"] = <<>>
       /\ Range(P["basic"]) \cap MutatingTools = {}
       /\ ServerTools \subseteq Range(P["full"])
       /\ \A n \in DOMAIN P : Range(P[n]) \subseteq Range(P["full"])


\* ------------------------------------------------- the provider's timers

\* C22: every pending timer of the token provider is unreferenced
C22_TimersUnreferenced == \A tm \in timers : tm.unref

\* at most one timer is pending, and none while an exchange is in flight
C29_Inv ==
  /\ Cardinality(timers) <= 1
  /\ authPc = "fetching" => timers = {}

\* an exchange starts only with none in flight, from initialize() or from
\* the firing of the one pending timer; a timer is set only with no
\* exchange left in flight, by the end of an exchange or by the retry timer
C29_Step ==
  /\ hist'.exchanges > hist.exchanges =>
       /\ authPc # "fetching"
       /\ pc = "start" \/ (Cardinality(timers) = 1 /\ timers' = {})
  /\ timers' \ timers # {} =>
       /\ authPc' # "fetching"
       /\ authPc = "fetching" \/ (\E tm \in timers : tm.kind = "retry")

\* C29: at most one token exchange is in flight and at most one provider
\* timer is pending, never both; exchanges start from the pending timer
\* only, timers are set after an exchange only
C29_OneExchangeOneTimer == []C29_Inv /\ [][C29_Step]_vars

\* the retry timer is the one pending timer after a failed refresh
C29_Witness ==
  /\ hist.exchanges >= 2 /\ authPc = "idle"
  /\ \E tm \in timers : tm.kind = "retry" /\ timers = {tm}


\* ---------------------------------------------------------------- helpers

\* C24: a bare numeric id n becomes gid://shopify/T/n, a qualified id is
\* returned unchanged, normalising twice is normalising once, and the
\* number extracted from the normalised id is n ("999" for
\* gid://shopify/Order/999)
C24_IdNormalisation ==
  (util.fn = "id" /\ util.done) =>
    /\ util.arg \in NumericIds =>
         /\ util.out = GidPrefix \o <<util.type, "/">> \o util.arg
         /\ util.num = util.arg
    /\ util.arg \in QualifiedIds => util.out = util.arg
    /\ util.again = util.out
    /\ util.arg = <<"gid:", "/", "/", "shopify", "/", "Order", "/", "999">> =>
         util.num = <<"999">>

\* "123" was normalised for type Product
C24_Witness ==
  /\ util.fn = "id" /\ util.done /\ util.arg = <<"123">>
  /\ util.out = <<"gid:", "/", "/", "shopify", "/", "Product", "/", "123">>
  /\ util.num = <<"123">>

\* C25: the masked form has the length of the value; of a value longer than
\* 8 it keeps the first 4 and the last 4 characters and has '*' in between,
\* of a shorter value it has '*' everywhere
C25_Masking ==
  (util.fn = "mask" /\ util.done) =>
    /\ Len(util.out) = Len(util.arg)
    /\ \A i \in 1..Len(util.arg) :
         util.out[i] =
           IF Len(util.arg) > 8 /\ (i <= 4 \/ i > Len(util.arg) - 4)
           THEN util.arg[i] ELSE "*"

\* a value of 9 characters was masked: one '*' between 4 and 4 kept
C25_Witness ==
  /\ util.fn = "mask" /\ util.done /\ Len(util.arg) = 9
  /\ util.arg[5] = "b" /\ util.out[5] = "*"
  /\ util.out[4] = util.arg[4] /\ util.out[6] = util.arg[6]


\* ------------------------------------------------ the attempts of query

\* the attempts of a call whose try block threw: the request failed, or the
\* logging of its response did
TryFailures(c) == FailedAttempts(c) + c.logFails

C26_Inv ==
  \A i \in 1..MaxCalls :
    LET c == calls[i] IN
    c.kind = "query" =>
      /\ c.pc \in {"inflight", "sleeping", "returned", "thrown"}
      /\ c.sent \in 1..(cfg.retryAttempts + 1)
      /\ c.pc = "inflight" =>
            c.sleeps = c.sent - 1 /\ TryFailures(c) = c.sent - 1 /\ c.first4xx = 0
      /\ c.pc = "sleeping" =>
            /\ c.sleeps = c.sent /\ TryFailures(c) = c.sent /\ c.first4xx = 0
            /\ c.sent <= cfg.retryAttempts /\ c.delay > 0
      /\ Terminal(c) => c.sleeps = c.sent - 1 /\ c.delay = 0
      /\ c.pc = "returned" => TryFailures(c) = c.sent - 1
      /\ c.pc = "thrown" => TryFailures(c) = c.sent

C26_Step ==
  \A i \in 1..MaxCalls :
    LET c == calls[i]  d == calls'[i] IN
    c.kind = "query" =>
      /\ Terminal(c) => d = c
      /\ d.sent # c.sent => c.pc = "sleeping" /\ d.sent = c.sent + 1 /\ d.pc = "inflight"
      /\ d.sleeps # c.sleeps =>
            c.pc = "inflight" /\ d.pc = "sleeping" /\ d.sleeps = c.sleeps + 1

C27_BackoffDelay ==
  \A i \in 1..MaxCalls :
    LET c == calls[i]
        k == c.sent - 1
    IN c.kind = "query" /\ c.pc = "sleeping" =>
         /\ c.delay >= Min(1000 * Pow2(k), 30000)
         /\ c.delay <= 30000
         /\ \E jitter \in 0..999 : c.delay = Min(1000 * Pow2(k) + jitter, 30000)

\* the sleep after the sixth failed attempt: 32000 and more, capped at 30000
C27_Witness ==
  \E i \in 1..MaxCalls :
    /\ calls[i].kind = "query" /\ calls[i].pc = "sleeping"
    /\ calls[i].sent = 6 /\ calls[i].delay = 30000

\* ------------------------------------------------------- the list tools

\* the remote answered a request of the call with a result
Answered(c) == c.pc = "returned" \/ c.logFails > 0

\* C23: the products-list tool, called with a limit in 1..250 against a
\* remote that answers with a products connection of k edges, returns
\* success:true with the nodes of those edges, in their order, whatever the
\* log level and the debug mode
C23_ProductsList ==
  (/\ toolRun.stage = "done" /\ toolRun.tool = "get-products"
   /\ toolRun.args = "valid" /\ toolRun.given.limit # Undef
   /\ Answered(calls[1]) /\ ~toolRun.reshape
   /\ calls[1].pc = "returned" => toolRun.response.hasEdges) =>
    /\ ~toolRun.result.threw
    /\ toolRun.result.flag = "true"
    /\ Len(toolRun.products) = Len(toolRun.response.edges)
    /\ \A k \in 1..Len(toolRun.products) :
         toolRun.products[k] = toolRun.response.edges[k].node

\* the same with the logger's debug mode off
C23_ProductsListNoDebug ==
  ~toolRun.debugMode => C23_ProductsList

\* C28: a list tool builds its request from the validated arguments with the
\* schema's defaults applied: without limit it asks for 10 items, the orders
\* list without status sends no status filter
C28_DefaultsApplied ==
  (toolRun.stage # "idle" /\ toolRun.tool \in ListTools /\ toolRun.args = "valid") =>
    /\ toolRun.given.limit = Undef => toolRun.variables.first = Num(10)
    /\ toolRun.given.limit # Undef => toolRun.variables.first = toolRun.given.limit
    /\ toolRun.given.status \in {Undef, Str("any", NaN)} => toolRun.variables.query = <<>>

\* C30: a tool call whose arguments fail validation returns success:false
\* with the code TOOL_EXECUTION_ERROR and sends nothing; a call that has sent
\* a request had valid arguments
C30_InvalidArgsSendNothing ==
  /\ (toolRun.stage = "done" /\ toolRun.args = "invalid") =>
        /\ ~toolRun.result.threw
        /\ toolRun.result.flag = "false"
        /\ toolRun.result.errorCode = "TOOL_EXECUTION_ERROR"
        /\ \A i \in 1..MaxCalls : calls[i] = NoCall
  /\ (toolRun.stage # "idle" /\ calls[1] # NoCall) => toolRun.args = "valid"

\* the same with the logger's debug mode off
C30_InvalidArgsNoDebug ==
  ~toolRun.debugMode => C30_InvalidArgsSendNothing

\* the part of C30 about requests alone
C30_NoRequest ==
  /\ (toolRun.stage = "done" /\ toolRun.args = "invalid") =>
        \A i \in 1..MaxCalls : calls[i] = NoCall
  /\ (toolRun.stage # "idle" /\ calls[1] # NoCall) => toolRun.args = "valid"

====
